---- MODULE Spec2Model ----
(***************************************************************************)
(* Event fan-out of standalone/src/main.rs: one tokio::sync::broadcast     *)
(* channel (the Hub), the drain task spawned in main (the Sentinel) and    *)
(* the per-connection stream built by sse_handler (the Stream Adapter).    *)
(*                                                                         *)
(* The channel is tokio's: main.rs only calls channel, subscribe, recv and *)
(* (through AppState.tx) send.  The operators below that carry a tokio     *)
(* name follow that function of tokio::sync::broadcast step by step.       *)
(* Events are identified by their publish number: E1 is the first event    *)
(* the hub accepted, E2 the second, ...; 0 stands for "no value".          *)
(***************************************************************************)
EXTENDS Integers, Sequences, FiniteSets

\* Largest capacity handed to broadcast::channel (main.rs passes 10000).
MaxCapacity == 3
\* Number of publishes explored.
MaxPublished == 5
\* Ticks of the runtime's clock explored.
MaxTime == 4
\* Largest reading of the system clock explored.
MaxWall == 1
\* KeepAlive::interval: 500 ms, as two ticks of 250 ms
Interval == 2

\* Connections served by sse_handler during the run.
Clients == {"c1", "c2"}
\* The connection whose recv results and wire are recorded in log and frames;
\* every connection runs the same code.
Observed == "c1"
\* The receiver moved into the task spawned in main.
Sentinel == "dummy_rx"
\* The receiver channel() returns, bound to _rx in main.
MainRx == "_rx"
Receivers == Clients \cup {Sentinel, MainRx}

VARIABLES
  capacity,   \* the argument of broadcast::channel
  buffer,     \* Shared.buffer: slot index -> [pos, rem, val]
  tail,       \* Shared.tail: [pos, rx_cnt, closed]
  next,       \* Receiver.next of every receiver
  pc,         \* where each receiver's owner is: "idle" (not yet connected),
              \* "held" (_rx), "open" (in its recv loop), "stopped" (the drain
              \* task ended), "ended" (the stream returned None), "gone"
              \* (the client disconnected)
  log,        \* Observed: the position subscribe gave it, then what each of
              \* its recv calls returned, oldest first
  frames,     \* Observed: the data of the frames its stream yielded
  send_err,   \* whether some send returned Err(SendError)
  unread_max, \* Observed: the most events it ever had published and unread
  now,        \* the runtime's monotonic clock (tokio Instant), in ticks
  alive_timer,\* KeepAliveStream.alive_timer of each connection: its deadline
  quiet_from, \* Observed: the first instant from which it has been connected
              \* and nothing has been published
  clean_from, \* Observed: the first instant from which, besides, it entered
              \* no instant with an event unread
  beats,      \* Observed: the instants, since quiet_from, of its heartbeats
  data_last,  \* Observed: the instant of its last data frame, -1 if none
  wall,       \* the system clock (SystemTime), in milliseconds
  ids         \* Observed: the ids of the frames its stream yielded

hub == <<capacity, buffer, tail, next, pc, log, frames, send_err, unread_max>>

timers == <<now, alive_timer, quiet_from, clean_from, beats, data_last>>

vars == <<capacity, buffer, tail, next, pc, log, frames, send_err, unread_max,
          now, alive_timer, quiet_from, clean_from, beats, data_last,
          wall, ids>>

----------------------------------------------------------------------------
\* usize::next_power_of_two
RECURSIVE PowerOfTwoFrom(_, _)
PowerOfTwoFrom(p, n) == IF p >= n THEN p ELSE PowerOfTwoFrom(2 * p, n)

\* Mutants of next_power_of_two: no rounding; rounding down.
exact_capacity(n) == n

power_of_two_below(n) == IF PowerOfTwoFrom(1, n) = n THEN n ELSE PowerOfTwoFrom(1, n) \div 2

\* broadcast::channel(capacity): Sender::new_with_receiver_count rounds the
\* capacity up to a power of two; the buffer has that many slots.
next_power_of_two(n) == PowerOfTwoFrom(1, n)

\* Shared.buffer.len()
BufLen == Cardinality(DOMAIN buffer)

\* A `let (tx, _) = ...` would drop the first receiver on the spot.
MainDropsRx == FALSE

\* `let (tx, _rx) = ...`: the pattern binds the first receiver to _rx, so it
\* lives, never read, until main returns.
MainKeepsRx == TRUE

\* Slots as channel() builds them: pos = i - capacity (wrapping), no value.
channel(cap) ==
  [i \in 0 .. (next_power_of_two(cap) - 1) |->
     [pos |-> i - next_power_of_two(cap), rem |-> 0, val |-> 0]]

Max(a, b) == IF a > b THEN a ELSE b

\* Events published after a receiver's position (tail.pos - next).
Behind(r) == tail.pos - next[r]

\* The receiver exists (it is counted in tail.rx_cnt).
Live(r) == pc[r] \in {"open", "held"}

----------------------------------------------------------------------------
\* Mutant of new_receiver: the new receiver starts at the oldest slot.
new_receiver_oldest(tl, len) == Max(0, tl.pos - len)

\* Shared::new_receiver (tx.subscribe()): Receiver.next = tail.pos.
new_receiver(tl, len) == tl.pos

\* Mutant of lag_resume: resumes one event too late.
lag_resume_late(tlpos, len) == tlpos - len + 1

\* recv_ref, lagged receiver: next = tail.pos - buffer.len(), the oldest event
\* still in the buffer.
lag_resume(tlpos, len) == tlpos - len

\* Mutant of drained: a closed channel is never reported.
drained_pending(closed) == "Empty"

\* recv_ref, nothing unread for this receiver: Closed if tail.closed, else
\* Empty (recv registers its waker and suspends).
drained(closed) == IF closed THEN "Closed" ELSE "Empty"

\* Mutant of lag_missed: the count includes the event the cursor resumes at.
lag_missed_inclusive(resume, nxt) == resume - nxt + 1

\* recv_ref, lagged receiver: missed = next.wrapping_sub(self.next), the count
\* carried by RecvError::Lagged.
lag_missed(resume, nxt) == resume - nxt

\* Mutant of advance: the cursor stays on the event it returned.
advance_stuck(nxt) == nxt

\* recv_ref, value returned: self.next = self.next.wrapping_add(1).
advance(nxt) == nxt + 1

\* Mutant of recv_ref: a closed channel is reported before the slot is looked
\* at, so unread events are lost at shutdown.
recv_ref_closed_first(nxt, buf, tl) ==
  LET len == Cardinality(DOMAIN buf)
      slot == buf[nxt % len]
      resume == lag_resume(tl.pos, len)
  IN IF tl.closed
       THEN [kind |-> "Closed", val |-> 0, missed |-> 0, next |-> nxt]
       ELSE IF slot.pos = nxt
         THEN [kind |-> "Ok", val |-> slot.val, missed |-> 0,
               next |-> advance(nxt)]
         ELSE IF slot.pos + len = nxt
           THEN [kind |-> "Empty", val |-> 0, missed |-> 0, next |-> nxt]
           ELSE [kind |-> "Lagged", val |-> 0,
                 missed |-> lag_missed(resume, nxt), next |-> resume]

\* Receiver::recv_ref: what one recv call finds, under the tail and slot locks.
\* kind: "Ok" (val is the event), "Lagged" (missed events), "Closed", "Empty"
\* (the call suspends); next is Receiver.next afterwards.
recv_ref(nxt, buf, tl) ==
  LET len == Cardinality(DOMAIN buf)
      idx == nxt % len
      slot == buf[idx]
  IN IF slot.pos # nxt
       THEN IF slot.pos + len = nxt
              THEN [kind |-> drained(tl.closed), val |-> 0, missed |-> 0,
                    next |-> nxt]
              ELSE LET resume == lag_resume(tl.pos, len)
                       missed == lag_missed(resume, nxt)
                   IN IF missed = 0
                        THEN [kind |-> "Ok", val |-> slot.val, missed |-> 0,
                              next |-> advance(nxt)]
                        ELSE [kind |-> "Lagged", val |-> 0, missed |-> missed,
                              next |-> resume]
       ELSE [kind |-> "Ok", val |-> slot.val, missed |-> 0,
             next |-> advance(nxt)]

\* Mutant of release: the first reader takes the value out of the slot.
release_take(slot) == [slot EXCEPT !.rem = 0, !.val = 0]

\* RecvGuard::drop: the reader releases the slot; the last one clears the value.
release(slot) ==
  IF slot.rem <= 1 THEN [slot EXCEPT !.rem = 0, !.val = 0]
                   ELSE [slot EXCEPT !.rem = slot.rem - 1]

\* The buffer after a recv that returned the event at position p.
guard_drop(buf, p) ==
  LET idx == p % Cardinality(DOMAIN buf)
  IN [buf EXCEPT ![idx] = release(buf[idx])]

\* Receiver::drop: every event still in the buffer from the receiver's
\* position up to the tail is released as if read.
receiver_drop(buf, nxt, until) ==
  [i \in DOMAIN buf |->
     IF buf[i].pos >= nxt /\ buf[i].pos < until /\ buf[i].pos >= 0
       THEN release(buf[i]) ELSE buf[i]]

\* Mutant of match_arm: a lag ends the stream, as `while let Ok(_)` would.
match_arm_strict(kind) ==
  [yield |-> kind = "Ok", end |-> kind # "Ok"]

\* The match in the unfold closure of sse_handler: Ok returns Some(frame),
\* Lagged prints and continues, Closed returns None.
match_arm(kind) ==
  CASE kind = "Ok" -> [yield |-> TRUE, end |-> FALSE]
    [] kind = "Lagged" -> [yield |-> FALSE, end |-> FALSE]
    [] OTHER -> [yield |-> FALSE, end |-> TRUE]

\* What log keeps of a recv result.
Item(res) ==
  IF res.kind = "Ok" THEN [kind |-> "ev", n |-> res.val]
  ELSE IF res.kind = "Lagged" THEN [kind |-> "lag", n |-> res.missed]
  ELSE [kind |-> "closed", n |-> 0]

\* Mutant of keep_alive_reset: the timer is armed one tick too far.
keep_alive_reset_slow(t) == t + Interval + 1

\* KeepAliveStream::reset: alive_timer.reset(Instant::now() + max_interval)
keep_alive_reset(t) == t + Interval

\* Event::id of a data frame: the decimal form of the system clock's
\* milliseconds since the epoch, kept here as that number.
frame_id(w) == w

----------------------------------------------------------------------------
\* main, up to the spawn of the drain task: the channel with its first
\* receiver (_rx) and the subscription of dummy_rx, before any publish.
\* The connections in `coming` are yet to be made; the others have come and
\* gone before the first publish.
Start(coming) ==
  /\ capacity \in 1 .. MaxCapacity
  /\ buffer = channel(capacity)
  /\ pc = [r \in Receivers |->
             IF r = Sentinel THEN "open"
             ELSE IF r = MainRx THEN (IF MainKeepsRx THEN "held" ELSE "gone")
             ELSE IF r \in coming THEN "idle"
             ELSE "gone"]
  /\ tail = [pos |-> 0, rx_cnt |-> IF MainKeepsRx THEN 2 ELSE 1,
             closed |-> FALSE]
  /\ next = [r \in Receivers |-> 0]
  /\ log = <<>>
  /\ frames = <<>>
  /\ send_err = FALSE
  /\ unread_max = 0
  /\ now = 0
  /\ alive_timer = [c \in Clients |-> keep_alive_reset(0)]
  /\ quiet_from = 0
  /\ clean_from = 0
  /\ beats = {}
  /\ data_last = -1
  /\ wall = 0
  /\ ids = <<>>

Init == Start(Clients)

\* Sender::send on AppState.tx: Err if no receiver is left; else the event
\* takes the slot at tail.pos, whatever that slot held and whoever has not
\* read it, and the tail advances.  It never waits.
send ==
  IF tail.rx_cnt = 0
    THEN /\ send_err' = TRUE
         /\ UNCHANGED <<buffer, tail, unread_max>>
    ELSE /\ buffer' = [buffer EXCEPT ![tail.pos % BufLen] =
                         [pos |-> tail.pos, rem |-> tail.rx_cnt,
                          val |-> tail.pos + 1]]
         /\ tail' = [tail EXCEPT !.pos = tail.pos + 1]
         /\ unread_max' = IF pc[Observed] = "open"
                            THEN Max(unread_max, Behind(Observed) + 1)
                            ELSE unread_max
         /\ UNCHANGED send_err

\* A publish ends the quiet interval of the observed stream.
QuietEnds ==
  /\ quiet_from' = now + 1
  /\ clean_from' = now + 1
  /\ beats' = {}
  /\ UNCHANGED <<now, alive_timer, data_last, wall, ids>>

\* Mutant of Publish: a bounded queue, which waits until every receiver has
\* read the slot it is about to overwrite.
PublishWhenRead ==
  /\ ~tail.closed
  /\ tail.pos < MaxPublished
  /\ \A r \in Receivers : Live(r) => Behind(r) < BufLen
  /\ send
  /\ QuietEnds
  /\ UNCHANGED <<capacity, next, pc, log, frames>>

\* A handler publishes one status update through its clone of AppState.tx.
Publish ==
  /\ ~tail.closed
  /\ tail.pos < MaxPublished
  /\ send
  /\ QuietEnds
  /\ UNCHANGED <<capacity, next, pc, log, frames>>

\* sse_handler, line 77: tx.subscribe() makes the connection's receiver.
Connect(c) ==
  /\ pc[c] = "idle"
  /\ ~tail.closed
  /\ tail' = [tail EXCEPT !.rx_cnt = tail.rx_cnt + 1]
  /\ next' = [next EXCEPT ![c] = new_receiver(tail, BufLen)]
  /\ pc' = [pc EXCEPT ![c] = "open"]
  /\ log' = IF c = Observed THEN <<[kind |-> "sub", n |-> tail.pos]>> ELSE log
  /\ alive_timer' = [alive_timer EXCEPT ![c] = keep_alive_reset(now)]
  /\ quiet_from' = IF c = Observed THEN Max(quiet_from, now) ELSE quiet_from
  /\ clean_from' = IF c = Observed THEN Max(clean_from, now) ELSE clean_from
  /\ UNCHANGED <<capacity, buffer, frames, send_err, unread_max>>
  /\ UNCHANGED <<now, beats, data_last, wall, ids>>

\* The owner of receiver r is done (state) and drops it: Receiver::drop.
Dropped(r, nxt, state) ==
  /\ tail' = [tail EXCEPT !.rx_cnt = tail.rx_cnt - 1]
  /\ buffer' = receiver_drop(buffer, nxt, tail.pos)
  /\ next' = [next EXCEPT ![r] = nxt]
  /\ pc' = [pc EXCEPT ![r] = state]

\* One pass of the loop in the stream::unfold closure of sse_handler: one
\* rx.recv().await that completes, and the match arm it selects.  A frame
\* takes its id from the system clock, and Sse resets the keep-alive timer
\* when the stream yields it.
StreamRecv(c) ==
  LET res == recv_ref(next[c], buffer, tail)
      arm == match_arm(res.kind)
  IN /\ pc[c] = "open"
     /\ res.kind # "Empty"
     /\ IF c = Observed
          THEN /\ log' = Append(log, Item(res))
               /\ frames' = IF arm.yield THEN Append(frames, res.val) ELSE frames
               /\ ids' = IF arm.yield THEN Append(ids, frame_id(wall)) ELSE ids
               /\ data_last' = IF arm.yield THEN now ELSE data_last
          ELSE UNCHANGED <<log, frames, ids, data_last>>
     /\ alive_timer' = IF arm.yield
                         THEN [alive_timer EXCEPT ![c] = keep_alive_reset(now)]
                         ELSE alive_timer
     /\ IF arm.end
          THEN Dropped(c, res.next, "ended")
          ELSE /\ next' = [next EXCEPT ![c] = res.next]
               /\ buffer' = IF res.kind = "Ok" THEN guard_drop(buffer, next[c])
                                               ELSE buffer
               /\ UNCHANGED <<tail, pc>>
     /\ UNCHANGED <<capacity, send_err, unread_max>>
     /\ UNCHANGED <<now, quiet_from, clean_from, beats, wall>>

\* The client goes away: axum drops the Sse body and with it the receiver.
Disconnect(c) ==
  /\ pc[c] = "open"
  /\ Dropped(c, next[c], "gone")
  /\ UNCHANGED <<capacity, log, frames, send_err, unread_max>>
  /\ UNCHANGED <<timers, wall, ids>>

\* One pass of `while let Ok(_) = dummy_rx.recv().await {}` in the spawned
\* task: Ok loops; any Err (Lagged as well as Closed) fails the pattern, the
\* loop and the task end and dummy_rx is dropped.
SentinelRecv ==
  LET res == recv_ref(next[Sentinel], buffer, tail)
  IN /\ pc[Sentinel] = "open"
     /\ res.kind # "Empty"
     /\ IF res.kind = "Ok"
          THEN /\ next' = [next EXCEPT ![Sentinel] = res.next]
               /\ buffer' = guard_drop(buffer, next[Sentinel])
               /\ UNCHANGED <<tail, pc>>
          ELSE Dropped(Sentinel, res.next, "stopped")
     /\ UNCHANGED <<capacity, log, frames, send_err, unread_max>>
     /\ UNCHANGED <<timers, wall, ids>>

\* Every Sender is dropped (AppState and the handlers' clones):
\* Shared::close_channel sets tail.closed.
CloseHub ==
  /\ ~tail.closed
  /\ tail' = [tail EXCEPT !.closed = TRUE]
  /\ UNCHANGED <<capacity, buffer, next, pc, log, frames, send_err, unread_max>>
  /\ UNCHANGED <<timers, wall, ids>>

Next ==
  \/ Publish
  \/ \E c \in Clients : Connect(c)
  \/ \E c \in Clients : StreamRecv(c)
  \/ \E c \in Clients : Disconnect(c)
  \/ SentinelRecv
  \/ CloseHub

Spec == Init /\ [][Next]_vars

\* The recv of receiver r would return this now.
Pending(r) == recv_ref(next[r], buffer, tail)

\* Sse::poll_next on connection c would emit a heartbeat: the inner stream
\* is pending (its recv suspends) and the keep-alive timer has fired.
Due(c) ==
  /\ pc[c] = "open"
  /\ Pending(c).kind = "Empty"
  /\ now >= alive_timer[c]

\* The runtime's clock moves on one tick.  Timers fire on time: no tick
\* passes over a heartbeat that is due.  A stream with an event to read may
\* be late (its client reads slowly); the observed stream then enters the
\* new instant with an event unread.
Tick ==
  /\ now < MaxTime
  /\ \A c \in Clients : ~Due(c)
  /\ now' = now + 1
  /\ clean_from' = IF pc[Observed] = "open" /\ Behind(Observed) > 0
                     THEN Max(clean_from, now + 2)
                     ELSE clean_from
  /\ UNCHANGED <<hub, alive_timer, quiet_from, beats, data_last, wall, ids>>

\* Mutant of KeepAlive: the heartbeat is published through the hub.
KeepAliveAsEvent(c) ==
  /\ Due(c)
  /\ ~tail.closed
  /\ send
  /\ alive_timer' = [alive_timer EXCEPT ![c] = keep_alive_reset(now)]
  /\ beats' = IF c = Observed THEN beats \cup {now} ELSE beats
  /\ UNCHANGED <<capacity, next, pc, log, frames>>
  /\ UNCHANGED <<now, quiet_from, clean_from, data_last, wall, ids>>

\* KeepAliveStream::poll_event on connection c: the inner stream is pending
\* and the timer has fired; the "ping" comment frame goes to the client and
\* the timer is reset.  The channel and the receiver are not touched.
KeepAlive(c) ==
  /\ Due(c)
  /\ alive_timer' = [alive_timer EXCEPT ![c] = keep_alive_reset(now)]
  /\ beats' = IF c = Observed THEN beats \cup {now} ELSE beats
  /\ UNCHANGED <<hub, now, quiet_from, clean_from, data_last, wall, ids>>

NextKeepAlive ==
  \/ Next
  \/ Tick
  \/ \E c \in Clients : KeepAlive(c)

\* The program with the passing of time and the keep-alive of Sse, followed
\* for one connection.
SpecKeepAlive == Start({Observed}) /\ [][NextKeepAlive]_vars

\* The system clock moves forward.
WallTick ==
  /\ wall < MaxWall
  /\ wall' = wall + 1
  /\ UNCHANGED <<hub, timers, ids>>

\* The system clock is set back (an NTP step, an operator): SystemTime is
\* not monotonic.
WallSetBack ==
  /\ wall > 0
  /\ wall' \in 0 .. (wall - 1)
  /\ UNCHANGED <<hub, timers, ids>>

NextClock ==
  \/ Next
  \/ WallTick
  \/ WallSetBack

\* The program with the system clock its frame ids are read from, followed
\* for one connection.
SpecClock == Start({Observed}) /\ [][NextClock]_vars

TypeOK ==
  /\ capacity \in 1 .. MaxCapacity
  /\ tail.pos \in 0 .. MaxPublished
  /\ tail.rx_cnt = Cardinality({r \in Receivers : Live(r)})
  /\ \A r \in Receivers : next[r] \in 0 .. tail.pos
  /\ \A i \in DOMAIN buffer : buffer[i].rem >= 0
----------------------------------------------------------------------------
\* Reading the record of the observed connection.
Ev(n) == [kind |-> "ev", n |-> n]

Lag(n) == [kind |-> "lag", n |-> n]

Last(q) == q[Len(q)]

IsPrefix(q, t) == Len(q) <= Len(t) /\ \A i \in 1 .. Len(q) : q[i] = t[i]

\* The position a record leads to: where subscribe put the cursor, plus one
\* per event received, plus the count of every lag notification.
RECURSIVE Advance(_)
Advance(q) ==
  IF q = <<>> THEN 0
  ELSE Advance(SubSeq(q, 1, Len(q) - 1))
       + (IF Last(q).kind = "ev" THEN 1
          ELSE IF Last(q).kind \in {"lag", "sub"} THEN Last(q).n ELSE 0)

\* The events of a record, in the order received.
RECURSIVE Events(_)
Events(q) ==
  IF q = <<>> THEN <<>>
  ELSE IF Last(q).kind = "ev"
         THEN Append(Events(SubSeq(q, 1, Len(q) - 1)), Last(q).n)
         ELSE Events(SubSeq(q, 1, Len(q) - 1))

\* Published after r's position and no longer in the buffer: the events r
\* failed to observe.
Evicted(r) ==
  {p \in next[r] .. (tail.pos - 1) : buffer[p % BufLen].pos # p}

\* This step is a recv of the observed connection that returned.
ObservedRecv == log # <<>> /\ log' # log


----------------------------------------------------------------------------
\* C1's case: capacity 3, the cursor created before any publish, no recv
\* before the fifth publish, exactly five events published, hub open.
Scenario ==
  /\ capacity = 3
  /\ log # <<>> /\ log[1] = [kind |-> "sub", n |-> 0]
  /\ unread_max = 5
  /\ tail.pos = 5
  /\ ~tail.closed

\* C1 as stated: in the scenario the cursor's receives return a lag
\* notification of 2, then E3, E4, E5, and then suspend.
C1_Original ==
  Scenario =>
    /\ IsPrefix(Tail(log), <<Lag(2), Ev(3), Ev(4), Ev(5)>>)
    /\ (Len(log) = 5 => Pending(Observed).kind = "Empty")

\* C1 amended: channel(3) has four slots, so in the scenario only E1 is
\* lost: the receives return a lag notification of 1, then E2, E3, E4, E5,
\* and the next receive suspends.
C1_Scenario ==
  Scenario =>
    /\ IsPrefix(Tail(log), <<Lag(1), Ev(2), Ev(3), Ev(4), Ev(5)>>)
    /\ IsPrefix(frames, <<2, 3, 4, 5>>)
    /\ (Len(log) = 6 /\ pc[Observed] = "open"
          => Pending(Observed).kind = "Empty")

\* C1's case reached: the scenario, after the lag notification and E2..E5.
C1_Witness == Scenario /\ Len(log) = 6 /\ pc[Observed] = "open"

\* C2 as stated: a first receive made when at least capacity events were
\* published since the cursor was created returns a lag notification that
\* counts the events it failed to observe.
C2_Original ==
  [][(ObservedRecv /\ Len(log) = 1 /\ Behind(Observed) >= capacity)
       => Last(log') = Lag(Cardinality(Evicted(Observed)))]_vars

\* C2 amended: a receive made when more events were published since the
\* cursor's position than the buffer has slots (the capacity rounded up to a
\* power of two) returns a lag notification whose count is the number of
\* events evicted unread, and leaves the cursor at the oldest event still in
\* the buffer; the receive after a lag notification returns that event
\* unless it was evicted in between; every event delivered is the one right
\* after all that the cursor received or skipped before, so no skipped event
\* is delivered.
C2_Overflow ==
  /\ [][(ObservedRecv /\ Behind(Observed) > BufLen) =>
          /\ Evicted(Observed) # {}
          /\ Last(log') = Lag(Cardinality(Evicted(Observed)))
          /\ next'[Observed] = tail.pos - BufLen
          /\ Evicted(Observed)' = {}]_vars
  /\ [][(ObservedRecv /\ Last(log).kind = "lag" /\ Evicted(Observed) = {})
          => Last(log') = Ev(next[Observed] + 1)]_vars
  /\ [](\A j \in 1 .. Len(log) :
          log[j].kind = "ev" => log[j].n = Advance(SubSeq(log, 1, j - 1)) + 1)

\* C2's case reached: a lag notification of 2 or more, then an event.
C2_Witness ==
  /\ Len(log) >= 3
  /\ log[2].kind = "lag" /\ log[2].n >= 2
  /\ log[3].kind = "ev"

C4_SentinelLoops == ~tail.closed => pc[Sentinel] = "open"

\* C5: the hub always has a live cursor and no publish has returned an error.
C5_PublishAccepted ==
  /\ tail.rx_cnt >= 1
  /\ \E r \in Receivers : Live(r)
  /\ ~send_err

\* C5's case reached: the sentinel has stopped, no client is connected, and
\* publishes went on.
C5_Witness ==
  /\ pc[Sentinel] = "stopped"
  /\ \A c \in Clients : pc[c] \in {"gone", "idle"}
  /\ Behind(Sentinel) > BufLen
  /\ ~tail.closed

\* C6: while a sender exists publish can take its step, whatever the
\* cursors' positions; and a receive that has something to return can take
\* its step, whichever other cursors are suspended.
C6_NeverBlock ==
  /\ (~tail.closed /\ tail.pos < MaxPublished) => ENABLED Publish
  /\ \A c \in Clients :
       (pc[c] = "open" /\ Pending(c).kind # "Empty") => ENABLED StreamRecv(c)
  /\ (pc[Sentinel] = "open" /\ Pending(Sentinel).kind # "Empty")
       => ENABLED SentinelRecv

\* C6's case reached: one cursor suspended, another more than a buffer behind.
C6_Witness ==
  /\ ~tail.closed /\ tail.pos < MaxPublished
  /\ \E a, b \in Clients :
       /\ pc[a] = "open" /\ Pending(a).kind = "Empty"
       /\ pc[b] = "open" /\ Behind(b) > BufLen

\* The events in the buffer: slot -> (position, value).
Contents == [i \in DOMAIN buffer |-> <<buffer[i].pos, buffer[i].val>>]

\* This step is b's own: b received, was told it lagged, or was dropped.
StepOf(b) ==
  /\ tail'.pos = tail.pos /\ tail'.closed = tail.closed
  /\ pc[b] = "open"
  /\ next'[b] # next[b] \/ pc'[b] # pc[b]

\* C7: a step of cursor b (a receive, a lag notification, its drop) leaves
\* every other cursor's position, state and next recv result, and the events
\* in the buffer, as they were.
C7_Isolation ==
  [][\A b \in Receivers : StepOf(b) =>
       /\ Contents' = Contents
       /\ \A a \in Receivers \ {b} :
            /\ next'[a] = next[a]
            /\ pc'[a] = pc[a]
            /\ Pending(a)' = Pending(a)
            /\ Evicted(a)' = Evicted(a)]_vars

\* C7's case reached: b lagged and disconnected while a has an event to read.
C7_Witness ==
  \E a, b \in Clients :
    /\ a # b
    /\ pc[b] = "gone" /\ Behind(b) > BufLen
    /\ pc[a] = "open" /\ Behind(a) >= 1 /\ Pending(a).kind = "Ok"

\* C8: the cursor starts at the number of events published before it was
\* created: every event it receives was published later, and its position
\* is that start plus what it received and what its lag notifications count.
C8_SubscribeAtTail ==
  log # <<>> =>
    /\ \A i \in 2 .. Len(log) : log[i].kind = "ev" => log[i].n > log[1].n
    /\ Advance(log) = next[Observed]
    /\ next[Observed] <= tail.pos

\* C8's case reached: a cursor created after two publishes has lagged and
\* received.
C8_Witness ==
  /\ log # <<>> /\ log[1].n >= 2
  /\ \E i, j \in 2 .. Len(log) : log[i].kind = "lag" /\ log[j].kind = "ev"

\* C9 as stated: once the hub is closed, the next receive of an open stream
\* returns closed and the stream yields no further data frame.
C9_Original ==
  [][(ObservedRecv /\ tail.closed) =>
       Last(log').kind = "closed" /\ frames' = frames]_vars

\* C9 amended: once the hub is closed, an open stream with no unread event
\* ends at its next receive, which returns closed (the stream returns None);
\* a stream ends this way only when the hub is closed.
C9_Shutdown ==
  /\ [](\A c \in Clients :
          (tail.closed /\ pc[c] = "open" /\ Behind(c) = 0)
             => Pending(c).kind = "Closed")
  /\ [][\A c \in Clients :
          (tail.closed /\ Behind(c) = 0 /\ StepOf(c))
             => pc'[c] \in {"ended", "gone"}]_vars
  /\ [][(ObservedRecv /\ tail.closed /\ Behind(Observed) = 0) =>
          /\ Last(log').kind = "closed"
          /\ frames' = frames
          /\ pc'[Observed] = "ended"]_vars
  /\ [](\A c \in Clients : pc[c] = "ended" => tail.closed)

\* C9's case reached: both streams ended, the recorded one after frames.
C9_Witness ==
  /\ pc[Observed] = "ended" /\ Len(frames) >= 1
  /\ \E c \in Clients \ {Observed} : pc[c] = "ended"

\* C10: a lag notification yields no frame and leaves the stream open; the
\* frames yielded are the events received; a stream leaves its loop only on
\* closed or on the client's disconnect.
C10_SilentResync ==
  /\ [](frames = Events(log))
  /\ [][(ObservedRecv /\ Last(log').kind = "lag") =>
          frames' = frames /\ pc'[Observed] = "open"]_vars
  /\ [][\A c \in Clients : (pc[c] = "open" /\ pc'[c] # "open") =>
          \/ pc'[c] = "ended" /\ Pending(c).kind = "Closed"
          \/ pc'[c] = "gone"]_vars

\* C10's case reached: lag, event, lag again, and the stream still open.
C10_Witness ==
  /\ pc[Observed] = "open"
  /\ Len(log) >= 4
  /\ log[2].kind = "lag" /\ log[3].kind = "ev" /\ log[4].kind = "lag"
----------------------------------------------------------------------------
\* Event e is in a frame the observed stream yielded.
Delivered(e) == \E i \in 1 .. Len(frames) : frames[i] = e

\* The sum of the counts of the lag notifications in a record.
RECURSIVE SkipTotal(_)
SkipTotal(q) ==
  IF q = <<>> THEN 0
  ELSE SkipTotal(SubSeq(q, 1, Len(q) - 1))
       + (IF Last(q).kind = "lag" THEN Last(q).n ELSE 0)

\* This step is a recv of r that returned an event.
Received(r) == StepOf(r) /\ pc'[r] = "open" /\ Pending(r).kind = "Ok"

\* C11: the hub numbers events in the order it accepts them (the slot at
\* position p holds event p + 1); every cursor that receives an event
\* receives the one at its position and moves past it, and no cursor moves
\* back, so each cursor's events come in accepted order, none twice; the
\* frames of the observed stream are strictly increasing.
C11_CommonOrder ==
  /\ [](\A i \in DOMAIN buffer :
          buffer[i].val # 0 => buffer[i].val = buffer[i].pos + 1)
  /\ [](\A i, j \in 1 .. Len(frames) : i < j => frames[i] < frames[j])
  /\ [](\A e \in 1 .. Len(Events(log)) : Events(log)[e] <= next[Observed])
  /\ [][\A r \in Receivers : Received(r) =>
          Pending(r).val = next[r] + 1 /\ next'[r] = next[r] + 1]_vars
  /\ [][\A r \in Receivers : pc[r] # "idle" => next'[r] >= next[r]]_vars

\* C11's case reached: the observed stream skipped E2, which the sentinel
\* received between E1 and E3.
C11_Witness ==
  /\ Len(frames) >= 2 /\ frames[2] > frames[1] + 1
  /\ pc[Sentinel] = "open" /\ next[Sentinel] >= frames[2]

\* The runtime polls the task of the observed stream whenever its recv can
\* return.
SpecFair == Spec /\ WF_vars(StreamRecv(Observed))

\* Event p + 1 was accepted while the observed stream was subscribed and open.
Accepted(p) ==
  /\ pc[Observed] = "open"
  /\ log # <<>> /\ log[1].n <= p
  /\ tail.pos > p

\* C13: under fair scheduling every event accepted while the stream is
\* subscribed is eventually in one of its frames or counted by one of its lag
\* notifications, unless the client disconnects; if the cursor never had
\* more than capacity events unread, it is in a frame.
C13_Delivery ==
  \A p \in 0 .. (MaxPublished - 1) :
    Accepted(p) ~>
      \/ Delivered(p + 1)
      \/ Advance(log) > p /\ SkipTotal(log) > 0 /\ unread_max > capacity
      \/ pc[Observed] = "gone"

\* C13's case reached: every event was accepted while the stream was
\* subscribed, one was skipped and the last one delivered.
C13_Witness ==
  /\ log # <<>> /\ log[1].n = 0
  /\ tail.pos >= 3 /\ Delivered(tail.pos)
  /\ SkipTotal(log) >= 1
  /\ pc[Observed] = "open"

\* The events whose value is in the buffer.
Retained == {buffer[i].val : i \in DOMAIN buffer} \ {0}

\* C15 as stated: the buffer holds the most recent min(published, capacity)
\* events, never more than capacity.
C15_Original ==
  /\ Cardinality(Retained) <= capacity
  /\ Retained = {e \in 1 .. tail.pos : e > tail.pos - capacity}

\* C15 amended: the buffer has capacity rounded up to a power of two slots;
\* the retained events are the most recent min(published, slots) events, each
\* in the slot of its position; a publish into a full buffer evicts exactly
\* the oldest retained event, read or not.
C15_Retention ==
  /\ [](BufLen = next_power_of_two(capacity))
  /\ [](Retained = {e \in 1 .. tail.pos : e > tail.pos - BufLen})
  /\ [](\A e \in Retained : buffer[(e - 1) % BufLen].val = e)
  /\ [][(tail'.pos = tail.pos + 1 /\ tail.pos >= BufLen) =>
          Retained' = (Retained \ {tail.pos - BufLen + 1}) \cup {tail.pos + 1}]_vars

\* C15's case reached: five events published with no client ever connected,
\* all read by the sentinel, four of them still in the buffer.
C15_Witness ==
  /\ capacity = 3 /\ tail.pos = 5
  /\ \A c \in Clients : pc[c] = "idle"
  /\ pc[Sentinel] = "open" /\ Behind(Sentinel) = 0
  /\ Cardinality(Retained) = 4

\* The events from the cursor's creation up to its position that it was not
\* given: the ones it will never receive.
NeverReceived ==
  {e \in (log[1].n + 1) .. next[Observed] : ~Delivered(e)}

\* C17: events received + lag counts + events published and still ahead of
\* the cursor = events published since the cursor was created; and the lag
\* counts add up to the number of events it will never receive.
C17_LagAccounting ==
  log # <<>> =>
    /\ Len(Events(log)) + SkipTotal(log) + Cardinality(next[Observed] .. (tail.pos - 1))
         = tail.pos - log[1].n
    /\ SkipTotal(log) = Cardinality(NeverReceived)

\* C17's case reached: two lag notifications with an event in between, and
\* events still unread.
C17_Witness ==
  /\ Len(log) >= 4
  /\ log[2].kind = "lag" /\ log[3].kind = "ev" /\ log[4].kind = "lag"
  /\ Behind(Observed) >= 1 /\ pc[Observed] = "open"
  /\ log[1].n >= 1

\* C18: after the close a cursor with unread events is given an event or a
\* lag notification, never closed; the stream stays open on it and yields
\* the event; a stream ends only with nothing unread, closed being the last
\* thing it was given.
C18_DrainBeforeClose ==
  /\ [](\A c \in Clients :
          (tail.closed /\ pc[c] = "open" /\ Behind(c) > 0)
             => Pending(c).kind \in {"Ok", "Lagged"})
  /\ [][(ObservedRecv /\ tail.closed /\ Behind(Observed) > 0) =>
          /\ pc'[Observed] = "open"
          /\ Last(log').kind \in {"ev", "lag"}
          /\ Last(log').kind = "ev" => frames' = Append(frames, next[Observed] + 1)]_vars
  /\ [][\A c \in Clients : (pc[c] = "open" /\ pc'[c] = "ended") => Behind(c) = 0]_vars
  /\ [](pc[Observed] = "ended" =>
          Last(log).kind = "closed" /\ Advance(log) = tail.pos)

\* C18's case reached: the hub is closed, the stream has absorbed a lag
\* notification and has events to yield.
C18_Witness ==
  /\ tail.closed /\ pc[Observed] = "open"
  /\ Last(log).kind = "lag"
  /\ Pending(Observed).kind = "Ok" /\ Behind(Observed) >= 2
\* The heartbeats of the observed stream at the instants a .. b.
PingsIn(a, b) == Cardinality({t \in beats : a <= t /\ t <= b})

\* The observed stream is open on an open hub and has emitted what is due at
\* this instant.
Settled ==
  /\ pc[Observed] = "open"
  /\ ~tail.closed
  /\ ~Due(Observed)

\* From instant a to now, longer than one interval: at least one heartbeat
\* for each whole interval, and no data frame.
Quiet(a) ==
  (now - a > Interval) =>
     /\ PingsIn(a, now) >= (now - a) \div Interval
     /\ data_last < a

C14_Monotonic ==
  \A i, j \in 1 .. Len(ids) : i < j => ids[i] <= ids[j]

\* This step is a heartbeat of the observed stream.
Heartbeat == now \in beats' /\ now \notin beats

\* C16: a heartbeat leaves the buffer, the tail, every cursor's position and
\* state, and what the stream received and yielded unchanged; the hub's
\* events are the published ones only, and the stream's frames carry these.
C16_HeartbeatInvisible ==
  /\ [][Heartbeat => UNCHANGED <<buffer, tail, next, pc, log, frames, ids>>]_vars
  /\ [][tail'.pos # tail.pos => (beats' = {} /\ alive_timer' = alive_timer)]_vars
  /\ [](\A i \in 1 .. Len(frames) : frames[i] \in 1 .. tail.pos)
  /\ [](Len(Events(log)) = Len(frames))

\* C16's case reached: the observed stream emitted a heartbeat while it and
\* the sentinel stood at different positions behind retained events.
C16_Witness ==
  /\ beats # {}
  /\ pc[Observed] = "open" /\ pc[Sentinel] = "open"
  /\ tail.pos >= 2
  /\ next[Sentinel] < next[Observed]
  /\ frames # <<>>
====
